---- MODULE Spec2Model ----
(***************************************************************************)
(* Model of cometblue_lite/cometblue.py: the CometBlueStates codec and the *)
(* CometBlue driver (connection handling, setters and the update() cycle). *)
(*                                                                         *)
(* Temperatures (Python floats, degrees Celsius) are integers counting     *)
(* quarter degrees, so 7.5 C is 30 and 20.25 C is 81; a telegram byte      *)
(* counts half degrees, as on the wire.  A status word is the set of its   *)
(* set bit positions, so (word & mask == mask) is (mask \subseteq word).   *)
(*                                                                         *)
(* update() is an asyncio coroutine: the code between two awaits runs      *)
(* without interruption, so every action below is the completion of one    *)
(* awaited call followed by the code up to the next await.  pc[p] names    *)
(* the awaited call task p is suspended in.                                *)
(***************************************************************************)
EXTENDS Integers, Sequences, FiniteSets, TLC

\* ------------------------------------------------------------------ bounds
\* calls and faults in one behaviour: update() calls, setter calls and faults
MaxEvents == 4
\* faults in one behaviour: what the transport does on its own (a raised
\* exception, a device not found, a lost link, a corrupt read, a timer expiry)
MaxFaults == 1

\* two tasks of the event loop call update() on the one CometBlue object
Tasks == {1, 2}

\* ------------------------------------------------------- program constants
\* the Python None, for the integer-valued fields
None == -999
\* the Python None, for the string-valued fields
NoneS == "None"
\* CometBlueStates.TEMPERATURE_OFF = 7.5, in quarter degrees
TEMPERATURE_OFF == 30
\* the "not present" byte of a temperature telegram
SENTINEL == -128

STATUS_KEYS ==
  << "childlock", "manual_mode", "adapting", "not_ready", "installing",
     "motor_moving", "antifrost_activated", "satisfied", "low_battery", "unknown" >>

STATUS_BITMASKS ==
  [ childlock |-> {7}, manual_mode |-> {0}, adapting |-> {10}, not_ready |-> {9},
    installing |-> {8, 9, 10}, motor_moving |-> {8}, antifrost_activated |-> {4},
    satisfied |-> {19}, low_battery |-> {11}, unknown |-> {13} ]

\* ------------------------------------------------------------------ helpers
Range(s) == { s[i] : i \in 1..Len(s) }

\* Python int(x) of x = n / d for d > 0: truncation toward zero
TruncDiv(n, d) == IF n >= 0 THEN n \div d ELSE -((-n) \div d)

\* struct.pack('b', v) accepts v in -128..127 and raises struct.error otherwise
IsSignedByte(v) == v >= -128 /\ v <= 127

\* --------------------------------------------------------- CometBlueStates
\* clear_temperatures(): the six temperature-family fields become None
clear_temperatures(s) ==
  [s EXCEPT !.target_temperature = None, !.target_temp_l = None,
            !.target_temp_h = None, !.offset_temperature = None,
            !.window_open_detection = None, !.window_open_minutes = None]

\* CometBlueStates.__init__
NewStates ==
  [ is_off |-> FALSE, firmware_rev |-> NoneS, manufacturer |-> NoneS,
    model |-> NoneS, software_rev |-> NoneS, status |-> << >>,
    battery_level |-> None, current_temp |-> None,
    target_temperature |-> None, target_temp_l |-> None, target_temp_h |-> None,
    offset_temperature |-> None, window_open_detection |-> None,
    window_open_minutes |-> None ]

\* The _status dict, in insertion order.  An entry is [k, b, n]: key k, b is
\* "the value is True" for a flag, n the bit set of an integer entry
\* (state_as_dword, unused_bits), for which b is FALSE.
StatusHas(st, key) == \E i \in 1..Len(st) : st[i].k = key

\* dict item assignment: an existing key keeps its place, a new key goes last
StatusSet(st, key, val) ==
  IF StatusHas(st, key)
  THEN [ i \in 1..Len(st) |-> IF st[i].k = key THEN [k |-> key, b |-> val, n |-> {}] ELSE st[i] ]
  ELSE Append(st, [k |-> key, b |-> val, n |-> {}])

\* float_to_int that packs the value without doubling it
float_to_int_plain(value) == IF value = None THEN SENTINEL ELSE TruncDiv(value, 4)

\* float_to_int of the temperatures getter: int(value * 2.0), or -128 for None
float_to_int(value) == IF value = None THEN SENTINEL ELSE TruncDiv(value, 2)

\* int_to_int of the temperatures getter
int_to_int(value) == IF value = None THEN SENTINEL ELSE value

\* temperatures getter: the seven bytes of the outgoing telegram
temperatures_get(s) ==
  << SENTINEL,
     float_to_int(s.target_temperature),
     float_to_int(s.target_temp_l),
     float_to_int(s.target_temp_h),
     float_to_int(s.offset_temperature),
     int_to_int(s.window_open_detection),
     int_to_int(s.window_open_minutes) >>

\* struct.pack of the temperatures getter raises when a byte is out of range
temperatures_get_raises(s) == \E i \in 1..7 : ~IsSignedByte(temperatures_get(s)[i])

\* temperatures setter that drops a telegram only for -128 in the first byte
temperatures_set_first_byte(s, t) ==
  IF t[1] = SENTINEL THEN s
  ELSE [s EXCEPT
          !.is_off = (2 * t[2] = TEMPERATURE_OFF),
          !.target_temperature =
             IF 2 * t[2] = TEMPERATURE_OFF THEN s.target_temperature ELSE 2 * t[2],
          !.current_temp = 2 * t[1],
          !.target_temp_l = 2 * t[3],
          !.target_temp_h = 2 * t[4],
          !.offset_temperature = 2 * t[5],
          !.window_open_detection = t[6],
          !.window_open_minutes = t[7]]

\* temperatures setter that stores the setpoint of every telegram it accepts
temperatures_set_overwrite(s, t) ==
  IF SENTINEL \in Range(t) THEN s
  ELSE [s EXCEPT
          !.is_off = (2 * t[2] = TEMPERATURE_OFF),
          !.target_temperature = 2 * t[2],
          !.current_temp = 2 * t[1],
          !.target_temp_l = 2 * t[3],
          !.target_temp_h = 2 * t[4],
          !.offset_temperature = 2 * t[5],
          !.window_open_detection = t[6],
          !.window_open_minutes = t[7]]

\* temperatures setter: a telegram with -128 anywhere is dropped
temperatures_set(s, t) ==
  IF SENTINEL \in Range(t) THEN s
  ELSE [s EXCEPT
          !.is_off = (2 * t[2] = TEMPERATURE_OFF),
          !.target_temperature =
             IF 2 * t[2] = TEMPERATURE_OFF THEN s.target_temperature ELSE 2 * t[2],
          !.current_temp = 2 * t[1],
          !.target_temp_l = 2 * t[3],
          !.target_temp_h = 2 * t[4],
          !.offset_temperature = 2 * t[5],
          !.window_open_detection = t[6],
          !.window_open_minutes = t[7]]

\* all_temperatures_none: values.remove(None) raises KeyError when no field is None
TempFamily(s) ==
  { s.target_temperature, s.target_temp_l, s.target_temp_h, s.offset_temperature,
    s.window_open_detection, s.window_open_minutes }

all_temperatures_none_raises(s) == None \notin TempFamily(s)

all_temperatures_none(s) == TempFamily(s) \ {None} = {}

\* encode_status: OR of the masks of the keys whose value is truthy; the three
\* low bytes are kept
encode_status(st) ==
  { bit \in 0..23 :
      \E i \in 1..Len(st) :
        /\ st[i].b \/ st[i].n # {}
        /\ st[i].k \in Range(STATUS_KEYS)
        /\ bit \in STATUS_BITMASKS[st[i].k] }

\* status_code getter: None for an empty dict; the flag tells the two apart
status_code_is_none(s) == Len(s.status) = 0

status_code_get(s) == encode_status(s.status)

\* decode_status that tests a mask with (word & mask != 0)
decode_status_any_bit(word) ==
  [ i \in 1..Len(STATUS_KEYS) |->
      [k |-> STATUS_KEYS[i], b |-> STATUS_BITMASKS[STATUS_KEYS[i]] \cap word # {}, n |-> {}] ]
  \o << [k |-> "state_as_dword", b |-> FALSE, n |-> word],
        [k |-> "unused_bits", b |-> FALSE,
         n |-> word \ UNION { STATUS_BITMASKS[STATUS_KEYS[i]] : i \in 1..Len(STATUS_KEYS) }] >>

\* decode_status: one entry per mask in table order, then the two integers
decode_status(word) ==
  [ i \in 1..Len(STATUS_KEYS) |->
      [k |-> STATUS_KEYS[i], b |-> STATUS_BITMASKS[STATUS_KEYS[i]] \subseteq word, n |-> {}] ]
  \o << [k |-> "state_as_dword", b |-> FALSE, n |-> word],
        [k |-> "unused_bits", b |-> FALSE,
         n |-> word \ UNION { STATUS_BITMASKS[STATUS_KEYS[i]] : i \in 1..Len(STATUS_KEYS) }] >>

\* status_code setter with a telegram
status_code_set(s, word) == [s EXCEPT !.status = decode_status(word)]

\* status_code setter with None
status_code_clear(s) == [s EXCEPT !.status = << >>]

\* status property: the first active entry of the dict that is an action
STATUS_ACTIONS == << "adapting", "not_ready", "installing", "motor_moving", "unknown", "satisfied" >>

status_get(s) ==
  LET active == SelectSeq(s.status, LAMBDA e : e.b /\ e.k \in Range(STATUS_ACTIONS))
  IN  IF Len(active) > 0 THEN active[1].k ELSE "unknown"


\* ------------------------------------------------------------------- state
VARIABLES
  available,            \* CometBlue.available
  current,              \* CometBlue._current
  target,               \* CometBlue._target
  device,               \* CometBlue._device is not None
  client,               \* CometBlue._client: 0 is None, n the n-th client object
  linkUp,               \* CometBlue._client.is_connected
  connect_lock,         \* holder of CometBlue._connect_lock, 0 when free
  operation_lock,       \* holder of CometBlue._operation_lock, 0 when free
  disconnect_timer,     \* CometBlue._disconnect_timer: "none", "armed", "fired"
  expected_disconnect,  \* CometBlue._expected_disconnect
  timer_fresh,          \* history: no operation on the link has returned since
                        \* the countdown was last started
  pin_written,          \* history: the clients whose PIN write has returned
  pc,                   \* per task: the await update() is suspended in, or "idle"
  conn,                 \* per task: the local conn of update(); during the PIN
                        \* write, the client that write was called on
  tele,                 \* per task: the telegram passed to the pending write_gatt_char
  result,               \* how the update() call that ended last ended
  thermostat,           \* the physical device behind the transport
  log,                  \* history, per task: the calls of this cycle that returned
  rx,                   \* history, per task: the temperature telegram the last call returned
  events,               \* history: the calls and faults so far
  faults                \* history: the faults so far

vars ==
  << available, current, target, device, client, linkUp, connect_lock, operation_lock,
     disconnect_timer, expected_disconnect, timer_fresh, pin_written, pc, conn, tele,
     result, thermostat, log, rx, events, faults >>

NoTele == [kind |-> "none", temps |-> << >>, word |-> {}]

\* the thermostat as delivered: 21.0 C measured, manual 20.0 C, low 16.0 C,
\* high 22.0 C, offset 0, window detection 4 / 10 minutes, child lock on
ThermostatInit ==
  [ temps |-> << 42, 40, 32, 44, 0, 4, 10 >>, word |-> {7}, battery |-> 80 ]

\* CometBlue.__init__
Init ==
  /\ available = FALSE
  /\ current = NewStates
  /\ target = NewStates
  /\ device = FALSE
  /\ client = 0
  /\ linkUp = FALSE
  /\ connect_lock = 0
  /\ operation_lock = 0
  /\ disconnect_timer = "none"
  /\ expected_disconnect = FALSE
  /\ timer_fresh = FALSE
  /\ pin_written = {}
  /\ pc = [p \in Tasks |-> "idle"]
  /\ conn = [p \in Tasks |-> 0]
  /\ tele = [p \in Tasks |-> NoTele]
  /\ result = "none"
  /\ thermostat = ThermostatInit
  /\ log = [p \in Tasks |-> << >>]
  /\ rx = [p \in Tasks |-> << >>]
  /\ events = 0
  /\ faults = 0

\* a fault may happen / has happened
FaultAllowed == events < MaxEvents /\ faults < MaxFaults

Fault(happens) ==
  /\ events' = IF happens THEN events + 1 ELSE events
  /\ faults' = IF happens THEN faults + 1 ELSE faults

\* a call of update() or of a setter may happen / has happened
Call ==
  /\ events < MaxEvents
  /\ events' = events + 1
  /\ UNCHANGED faults

\* ------------------------------------------------------ the update() cycle
\* "if self._client and self._client.is_connected"
IsConnected == client # 0 /\ linkUp

\* a call on the client object c can succeed only while that client's link is up
LinkOk(c) == c # 0 /\ c = client /\ linkUp

\* the device-info test that is always true
DeviceInfoAlwaysMissing(cur) == TRUE

\* "if None in device_infos"
DeviceInfoMissing(cur) ==
  NoneS \in { cur.model, cur.firmware_rev, cur.manufacturer, cur.software_rev }

\* NextAwait with the blocks of update() in the other order: the three reads
\* first, the pending writes after them
NextAwaitReadFirst(stage, cur, tgt) ==
  IF stage = "connected" /\ DeviceInfoMissing(cur)
    THEN [pc |-> "model", tele |-> NoTele]
  ELSE IF stage \in {"connected", "info"}
    THEN [pc |-> "rT", tele |-> NoTele]
  ELSE IF stage = "rT"
    THEN [pc |-> "rS", tele |-> NoTele]
  ELSE IF stage = "rS"
    THEN [pc |-> "rB", tele |-> NoTele]
  ELSE IF stage = "rB" /\ ~all_temperatures_none(tgt)
    THEN [pc |-> "wT",
          tele |-> [kind |-> "temps", temps |-> temperatures_get(tgt), word |-> {}]]
  ELSE IF stage \in {"rB", "wT"} /\ ~status_code_is_none(tgt)
    THEN [pc |-> "wS",
          tele |-> [kind |-> "status", temps |-> << >>, word |-> status_code_get(tgt)]]
  ELSE [pc |-> "return", tele |-> NoTele]

\* The code of update() from the point named by stage up to its next await:
\* the await it suspends in and the telegram it passes, "raise" or "return".
\* stage "connected": _ensure_connected() returned; "info": the device-info
\* block is over; "wT": the temperature block is over; "wS": the status
\* block; "rT", "rS", "rB": that read has been stored.
NextAwait(stage, cur, tgt) ==
  IF stage = "connected" /\ DeviceInfoMissing(cur)
    THEN [pc |-> "model", tele |-> NoTele]
  ELSE IF stage \in {"connected", "info"} /\ all_temperatures_none_raises(tgt)
    THEN [pc |-> "raise", tele |-> NoTele]
  ELSE IF stage \in {"connected", "info"} /\ ~all_temperatures_none(tgt)
    THEN IF temperatures_get_raises(tgt)
           THEN [pc |-> "raise", tele |-> NoTele]
           ELSE [pc |-> "wT",
                 tele |-> [kind |-> "temps", temps |-> temperatures_get(tgt), word |-> {}]]
  ELSE IF stage \in {"connected", "info", "wT"} /\ ~status_code_is_none(tgt)
    THEN [pc |-> "wS",
          tele |-> [kind |-> "status", temps |-> << >>, word |-> status_code_get(tgt)]]
  ELSE IF stage \in {"connected", "info", "wT", "wS"}
    THEN [pc |-> "rT", tele |-> NoTele]
  ELSE IF stage = "rT"
    THEN [pc |-> "rS", tele |-> NoTele]
  ELSE IF stage = "rS"
    THEN [pc |-> "rB", tele |-> NoTele]
  ELSE [pc |-> "return", tele |-> NoTele]

\* _reset_disconnect_timer() with its callback _disconnect in place: cancel,
\* clear the flag, arm
reset_disconnect_timer ==
  /\ expected_disconnect' = FALSE
  /\ disconnect_timer' = "armed"
  /\ timer_fresh' = TRUE

\* update() returns (res = "ok") or an exception leaves it (res = "raised")
Finish(p, res) ==
  /\ pc' = [pc EXCEPT ![p] = "idle"]
  /\ result' = res
  /\ tele' = [tele EXCEPT ![p] = NoTele]
  /\ conn' = [conn EXCEPT ![p] = 0]
  /\ log' = [log EXCEPT ![p] = << >>]
  /\ rx' = [rx EXCEPT ![p] = << >>]

\* The call named name has returned to task p; p goes on to the await na names
\* with c as its conn, or its update() raises on the way.
Go(p, na, name, c) ==
  IF na.pc \in {"raise", "return"}
  THEN Finish(p, IF na.pc = "raise" THEN "raised" ELSE "ok")
  ELSE /\ conn' = [conn EXCEPT ![p] = c]
       /\ pc' = [pc EXCEPT ![p] = na.pc]
       /\ tele' = [tele EXCEPT ![p] = na.tele]
       /\ log' = [log EXCEPT ![p] = Append(@, name)]
       /\ rx' = [rx EXCEPT ![p] = << >>]
       /\ UNCHANGED result

\* update() is called: _ensure_connected() up to its first await.  The tasks
\* are interchangeable, a call runs as the first task that is idle.
StartUpdate(p) ==
  /\ pc[p] = "idle"
  /\ \A q \in Tasks : q < p => pc[q] # "idle"
  /\ Call
  /\ IF IsConnected
     THEN /\ reset_disconnect_timer
          /\ Go(p, NextAwait("connected", current, target), "connected", client)
          /\ UNCHANGED connect_lock
     ELSE /\ UNCHANGED << expected_disconnect, disconnect_timer, timer_fresh, conn, result, tele, log, rx >>
          /\ IF connect_lock = 0
             THEN /\ connect_lock' = p
                  /\ pc' = [pc EXCEPT ![p] = IF device THEN "connect" ELSE "find1"]
             ELSE /\ pc' = [pc EXCEPT ![p] = "lock"]
                  /\ UNCHANGED connect_lock
  /\ UNCHANGED << available, current, target, device, client, linkUp, operation_lock, pin_written,
                  thermostat >>

\* the connect lock is granted to a waiting task: the second check
LockAcquired(p) ==
  /\ pc[p] = "lock"
  /\ connect_lock = 0
  /\ IF IsConnected
     THEN /\ reset_disconnect_timer
          /\ Go(p, NextAwait("connected", current, target), "connected", client)
          /\ UNCHANGED connect_lock
     ELSE /\ connect_lock' = p
          /\ pc' = [pc EXCEPT ![p] = IF device THEN "connect" ELSE "find1"]
          /\ UNCHANGED << expected_disconnect, disconnect_timer, timer_fresh, conn, result, tele, log, rx >>
  /\ UNCHANGED << available, current, target, device, client, linkUp, operation_lock, pin_written,
                  thermostat, events, faults >>

\* the first BleakScanner.find_device_by_address returns a device or None
Find1Done(p) ==
  /\ pc[p] = "find1"
  /\ \E found \in BOOLEAN :
       /\ ~found => FaultAllowed
       /\ Fault(~found)
       /\ device' = found
       /\ pc' = [pc EXCEPT ![p] = IF found THEN "connect" ELSE "find2"]
  /\ UNCHANGED << available, current, target, client, linkUp, connect_lock, operation_lock, pin_written,
                  disconnect_timer, expected_disconnect, timer_fresh, conn, tele, result, thermostat,
                  log, rx >>

\* the second find_device_by_address returns; None raises "could not discover device"
Find2Done(p) ==
  /\ pc[p] = "find2"
  /\ \E found \in BOOLEAN :
       /\ device' = found
       /\ IF found
          THEN /\ pc' = [pc EXCEPT ![p] = "connect"]
               /\ UNCHANGED << connect_lock, conn, result, tele, log, rx >>
          ELSE /\ Finish(p, "raised")
               /\ connect_lock' = 0
  /\ UNCHANGED << available, current, target, client, linkUp, operation_lock, pin_written,
                  disconnect_timer, expected_disconnect, timer_fresh, thermostat, events, faults >>

\* find_device_by_address or establish_connection raises: the lock is released
ConnectRaises(p) ==
  /\ pc[p] \in {"find1", "find2", "connect"}
  /\ FaultAllowed
  /\ Fault(TRUE)
  /\ Finish(p, "raised")
  /\ connect_lock' = 0
  /\ UNCHANGED << available, current, target, device, client, linkUp, operation_lock, pin_written,
                  disconnect_timer, expected_disconnect, timer_fresh, thermostat >>

\* establish_connection returns a connected client; the PIN write is started
ConnectDone(p) ==
  /\ pc[p] = "connect"
  /\ client' = client + 1
  /\ linkUp' = TRUE
  /\ reset_disconnect_timer
  /\ connect_lock' = 0
  /\ pc' = [pc EXCEPT ![p] = "pin"]
  /\ conn' = [conn EXCEPT ![p] = client + 1]
  /\ UNCHANGED << available, current, target, device, operation_lock, pin_written, tele, result,
                  thermostat, log, rx, events, faults >>

\* the PIN write on conn[p] returns: accepted, BleakError (logged, not raised)
\* or another exception (raised); then update() runs on from
\* "conn = self._client"
PinDone(p) ==
  /\ pc[p] = "pin"
  /\ \E outcome \in {"pin", "pin_rejected", "error"} :
       /\ outcome = "pin" => LinkOk(conn[p])
       /\ outcome # "pin" => ~LinkOk(conn[p]) \/ FaultAllowed
       /\ Fault(outcome # "pin" /\ LinkOk(conn[p]))
       /\ timer_fresh' = IF outcome = "pin" THEN FALSE ELSE timer_fresh
       /\ pin_written' = IF outcome = "error" THEN pin_written
                        ELSE pin_written \cup {conn[p]}
       /\ IF outcome = "error"
          THEN Finish(p, "raised")
          ELSE Go(p, NextAwait("connected", current, target), outcome, client)
  /\ UNCHANGED << available, current, target, device, client, linkUp, connect_lock,
                  operation_lock, disconnect_timer, expected_disconnect, thermostat >>

\* the four device-info reads, in the order of update()
InfoOrder == << "model", "firmware", "manufacturer", "software" >>

InfoField(cur, name, val) ==
  CASE name = "model"        -> [cur EXCEPT !.model = val]
    [] name = "firmware"     -> [cur EXCEPT !.firmware_rev = val]
    [] name = "manufacturer" -> [cur EXCEPT !.manufacturer = val]
    [] name = "software"     -> [cur EXCEPT !.software_rev = val]

\* the strings the thermostat serves for its device-info characteristics
InfoValue(name) ==
  CASE name = "model"        -> "Comet Blue"
    [] name = "firmware"     -> "COBL0126"
    [] name = "manufacturer" -> "EUROtronic GmbH"
    [] name = "software"     -> "0.0.6-sygonix1"

\* one device-info read returns and is stored; after the last, the write block
ReadInfoDone(p) ==
  /\ pc[p] \in Range(InfoOrder)
  /\ LinkOk(conn[p])
  /\ timer_fresh' = FALSE
  /\ current' = InfoField(current, pc[p], InfoValue(pc[p]))
  /\ Go(p, IF pc[p] = "software"
             THEN NextAwait("info", current', target)
             ELSE [pc |-> InfoOrder[1 + CHOOSE i \in 1..3 : InfoOrder[i] = pc[p]],
                   tele |-> NoTele],
        pc[p], conn[p])
  /\ UNCHANGED << available, target, device, client, linkUp, connect_lock, operation_lock, pin_written,
                  disconnect_timer, expected_disconnect, thermostat, events, faults >>

\* what the thermostat holds after a temperature telegram: the bytes that are
\* not -128 replace its setpoints, its measured temperature is its own
ThermostatWriteTemps(th, t) ==
  [th EXCEPT !.temps = [i \in 1..7 |-> IF i = 1 \/ t[i] = SENTINEL THEN th.temps[i] ELSE t[i]]]

\* what the thermostat holds after a status telegram
ThermostatWriteStatus(th, w) == [th EXCEPT !.word = w]

\* WriteTempDone that empties the whole of target after the temperature write
WriteTempDoneClearingAll(p) ==
  /\ pc[p] = "wT"
  /\ LinkOk(conn[p])
  /\ timer_fresh' = FALSE
  /\ thermostat' = ThermostatWriteTemps(thermostat, tele[p].temps)
  /\ target' = status_code_clear(clear_temperatures(target))
  /\ Go(p, NextAwait("wT", current, target'), "wT", conn[p])
  /\ UNCHANGED << available, current, device, client, linkUp, connect_lock, operation_lock, pin_written,
                  disconnect_timer, expected_disconnect, events, faults >>

\* the temperature write is confirmed: clear_temperatures(), then the status block
WriteTempDone(p) ==
  /\ pc[p] = "wT"
  /\ LinkOk(conn[p])
  /\ timer_fresh' = FALSE
  /\ thermostat' = ThermostatWriteTemps(thermostat, tele[p].temps)
  /\ target' = clear_temperatures(target)
  /\ Go(p, NextAwait("wT", current, target'), "wT", conn[p])
  /\ UNCHANGED << available, current, device, client, linkUp, connect_lock, operation_lock, pin_written,
                  disconnect_timer, expected_disconnect, events, faults >>

\* the status write is confirmed: target.status_code = None, then the reads
WriteStatusDone(p) ==
  /\ pc[p] = "wS"
  /\ LinkOk(conn[p])
  /\ timer_fresh' = FALSE
  /\ thermostat' = ThermostatWriteStatus(thermostat, tele[p].word)
  /\ target' = status_code_clear(target)
  /\ Go(p, NextAwait("wS", current, target'), "wS", conn[p])
  /\ UNCHANGED << available, current, device, client, linkUp, connect_lock, operation_lock, pin_written,
                  disconnect_timer, expected_disconnect, events, faults >>

\* the telegram a temperature read delivers: the thermostat's bytes, or those
\* with -128 in position i (i = 0: none)
Delivered(th, i) == [j \in 1..7 |-> IF j = i THEN SENTINEL ELSE th.temps[j]]

\* the temperature read returns: current.temperatures = ..., then the status read
ReadTempDone(p) ==
  /\ pc[p] = "rT"
  /\ LinkOk(conn[p])
  /\ timer_fresh' = FALSE
  /\ \E i \in 0..7 :
       /\ i # 0 => FaultAllowed
       /\ Fault(i # 0)
       /\ rx' = [rx EXCEPT ![p] = Delivered(thermostat, i)]
       /\ current' = temperatures_set(current, Delivered(thermostat, i))
  /\ pc' = [pc EXCEPT ![p] = NextAwait("rT", current', target).pc]
  /\ log' = [log EXCEPT ![p] = Append(@, "rT")]
  /\ UNCHANGED << available, target, device, client, linkUp, connect_lock, operation_lock, pin_written,
                  disconnect_timer, expected_disconnect, conn, tele, result, thermostat >>

\* the status read returns: current.status_code = ..., then the battery read
ReadStatusDone(p) ==
  /\ pc[p] = "rS"
  /\ LinkOk(conn[p])
  /\ timer_fresh' = FALSE
  /\ current' = status_code_set(current, thermostat.word)
  /\ Go(p, NextAwait("rS", current', target), "rS", conn[p])
  /\ UNCHANGED << available, target, device, client, linkUp, connect_lock, operation_lock, pin_written,
                  disconnect_timer, expected_disconnect, thermostat, events, faults >>

\* the battery read returns: current.battery_level = ..., available = True
ReadBatteryDone(p) ==
  /\ pc[p] = "rB"
  /\ LinkOk(conn[p])
  /\ timer_fresh' = FALSE
  /\ current' = [current EXCEPT !.battery_level = thermostat.battery]
  /\ available' = TRUE
  /\ Go(p, NextAwait("rB", current', target), "rB", conn[p])
  /\ UNCHANGED << target, device, client, linkUp, connect_lock, operation_lock, pin_written,
                  disconnect_timer, expected_disconnect, thermostat, events, faults >>

GattPcs == Range(InfoOrder) \cup {"wT", "wS", "rT", "rS", "rB"}

\* GattRaises with the pending fields dropped on the way out of a failed write
GattRaisesClearing(p) ==
  /\ pc[p] \in GattPcs
  /\ ~LinkOk(conn[p]) \/ FaultAllowed
  /\ Fault(LinkOk(conn[p]))
  /\ Finish(p, "raised")
  /\ target' = IF pc[p] = "wT" THEN clear_temperatures(target)
                ELSE IF pc[p] = "wS" THEN status_code_clear(target) ELSE target
  /\ UNCHANGED << available, current, device, client, linkUp, connect_lock,
                  operation_lock, pin_written, disconnect_timer, expected_disconnect, timer_fresh, thermostat >>

\* a read_gatt_char or write_gatt_char of update() raises: update() has no
\* handler, the exception leaves it
GattRaises(p) ==
  /\ pc[p] \in GattPcs
  /\ ~LinkOk(conn[p]) \/ FaultAllowed
  /\ Fault(LinkOk(conn[p]))
  /\ Finish(p, "raised")
  /\ UNCHANGED << available, current, target, device, client, linkUp, connect_lock,
                  operation_lock, pin_written, disconnect_timer, expected_disconnect, timer_fresh, thermostat >>

\* ------------------------------------------------------- the public setters
\* the values the callers of the setters pass, in quarter degrees
TargetTemperatureInputs == {84}
TargetLowInputs == {68}
TargetHighInputs == {92}
OffsetInputs == {4}

\* what a setter leaves alone
SetterFrame ==
  UNCHANGED << available, device, client, linkUp, connect_lock, operation_lock, pin_written,
               disconnect_timer, expected_disconnect, timer_fresh, pc, conn, tele, result, thermostat,
               log, rx >>

\* manual_mode getter of CometBlueStates: _status.get('manual_mode', False)
manual_mode_get(s) ==
  \E i \in 1..Len(s.status) : s.status[i].k = "manual_mode" /\ s.status[i].b

\* is_off setter that always restores the high setpoint
is_off_set_high(cur, tgt, value) ==
  IF value
  THEN [tgt EXCEPT !.status = StatusSet(tgt.status, "manual_mode", TRUE),
                   !.target_temperature = TEMPERATURE_OFF]
  ELSE [tgt EXCEPT !.target_temperature = cur.target_temp_h]

\* is_off setter that cannot switch the thermostat back on
is_off_set_one_way(cur, tgt, value) ==
  IF value
  THEN [tgt EXCEPT !.status = StatusSet(tgt.status, "manual_mode", TRUE),
                   !.target_temperature = TEMPERATURE_OFF]
  ELSE tgt

\* is_off setter: the new target
is_off_set(cur, tgt, value) ==
  IF value
  THEN [tgt EXCEPT !.status = StatusSet(tgt.status, "manual_mode", TRUE),
                   !.target_temperature = TEMPERATURE_OFF]
  ELSE IF cur.target_temperature # None
       THEN [tgt EXCEPT !.target_temperature = cur.target_temperature]
       ELSE [tgt EXCEPT !.target_temperature = cur.target_temp_h]

SetIsOff(value) ==
  /\ Call
  /\ target' = is_off_set(current, target, value)
  /\ UNCHANGED current
  /\ SetterFrame

\* target_temperature setter that always queues the value on target
target_temperature_set_queue(cur, tgt, temperature) ==
  [cur |-> cur, tgt |-> [tgt EXCEPT !.target_temperature = temperature]]

\* target_temperature setter: the new current and target
target_temperature_set(cur, tgt, temperature) ==
  IF cur.is_off
  THEN [cur |-> [cur EXCEPT !.target_temperature = temperature], tgt |-> tgt]
  ELSE [cur |-> cur, tgt |-> [tgt EXCEPT !.target_temperature = temperature]]

SetTargetTemperature(temperature) ==
  /\ Call
  /\ current' = target_temperature_set(current, target, temperature).cur
  /\ target' = target_temperature_set(current, target, temperature).tgt
  /\ SetterFrame

\* target_temperature_low setter
SetTargetTemperatureLow(temperature) ==
  /\ Call
  /\ target' = [target EXCEPT !.target_temp_l = temperature]
  /\ UNCHANGED current
  /\ SetterFrame

\* target_temperature_high setter
SetTargetTemperatureHigh(temperature) ==
  /\ Call
  /\ target' = [target EXCEPT !.target_temp_h = temperature]
  /\ UNCHANGED current
  /\ SetterFrame

\* offset_temperature setter that stores the value in current
SetOffsetTemperatureCurrent(temperature) ==
  /\ Call
  /\ current' = [current EXCEPT !.offset_temperature = temperature]
  /\ UNCHANGED target
  /\ SetterFrame

\* offset_temperature setter
SetOffsetTemperature(temperature) ==
  /\ Call
  /\ target' = [target EXCEPT !.offset_temperature = temperature]
  /\ UNCHANGED current
  /\ SetterFrame

\* manual_mode setter
SetManualMode(mode) ==
  /\ Call
  /\ target' = [target EXCEPT !.status = StatusSet(target.status, "manual_mode", mode)]
  /\ UNCHANGED current
  /\ SetterFrame

\* should_update()
should_update(avail, tgt) ==
  \/ ~avail
  \/ tgt.target_temperature # None
  \/ tgt.offset_temperature # None
  \/ ~status_code_is_none(tgt)

\* ------------------------------------------------- the transport's callbacks
\* _disconnected that warns about every disconnect
disconnected_warning(expected) == "warning"

\* _disconnected(): the severity of the message it logs
disconnected(expected) == IF expected THEN "debug" ELSE "warning"

\* the link is lost; the transport calls _disconnected
LinkLoss ==
  /\ linkUp
  /\ FaultAllowed
  /\ Fault(TRUE)
  /\ linkUp' = FALSE
  /\ UNCHANGED << expected_disconnect, timer_fresh >>
  /\ UNCHANGED << available, current, target, device, client, connect_lock, operation_lock, pin_written,
                  disconnect_timer, pc, conn, tele, result, thermostat,
                  log, rx >>

\* the idle timer expires and calls _disconnect: the flag is set and the
\* client disconnected, which makes the transport call _disconnected
TimerExpires ==
  /\ disconnect_timer = "armed"
  /\ FaultAllowed
  /\ Fault(TRUE)
  /\ disconnect_timer' = "fired"
  /\ timer_fresh' = FALSE
  /\ expected_disconnect' = TRUE
  /\ linkUp' = FALSE
  /\ UNCHANGED << available, current, target, device, client, connect_lock, operation_lock, pin_written,
                  pc, conn, tele, result, thermostat, log, rx >>

\* ------------------------------------------------------------ specification
Next ==
  \/ \E p \in Tasks : StartUpdate(p)
  \/ \E p \in Tasks : LockAcquired(p)
  \/ \E p \in Tasks : Find1Done(p)
  \/ \E p \in Tasks : Find2Done(p)
  \/ \E p \in Tasks : ConnectRaises(p)
  \/ \E p \in Tasks : ConnectDone(p)
  \/ \E p \in Tasks : PinDone(p)
  \/ \E p \in Tasks : ReadInfoDone(p)
  \/ \E p \in Tasks : WriteTempDone(p)
  \/ \E p \in Tasks : WriteStatusDone(p)
  \/ \E p \in Tasks : ReadTempDone(p)
  \/ \E p \in Tasks : ReadStatusDone(p)
  \/ \E p \in Tasks : ReadBatteryDone(p)
  \/ \E p \in Tasks : GattRaises(p)
  \/ \E value \in BOOLEAN : SetIsOff(value)
  \/ \E temperature \in TargetTemperatureInputs : SetTargetTemperature(temperature)
  \/ \E temperature \in TargetLowInputs : SetTargetTemperatureLow(temperature)
  \/ \E temperature \in TargetHighInputs : SetTargetTemperatureHigh(temperature)
  \/ \E temperature \in OffsetInputs : SetOffsetTemperature(temperature)
  \/ \E mode \in BOOLEAN : SetManualMode(mode)
  \/ LinkLoss
  \/ TimerExpires

Spec == Init /\ [][Next]_vars

\* ------------------------------------------- the driver exactly as written
\* _reset_disconnect_timer() passes self._disconnect to call_later, and the
\* class defines no attribute of that name: evaluating it raises
\* AttributeError after the old timer was cancelled and the flag cleared, and
\* before a new timer exists.  (Spec above is the driver with that callback
\* in place, as TimerExpires describes it.)
reset_disconnect_timer_as_written ==
  /\ expected_disconnect' = FALSE
  /\ disconnect_timer' = IF disconnect_timer = "none" THEN "none" ELSE "cancelled"
  /\ UNCHANGED timer_fresh

\* update() is called; with a connected client _reset_disconnect_timer()
\* raises out of _ensure_connected() and update()
StartUpdateAsWritten(p) ==
  /\ pc[p] = "idle"
  /\ \A q \in Tasks : q < p => pc[q] # "idle"
  /\ Call
  /\ IF IsConnected
     THEN /\ reset_disconnect_timer_as_written
          /\ Finish(p, "raised")
          /\ UNCHANGED connect_lock
     ELSE /\ UNCHANGED << expected_disconnect, disconnect_timer, timer_fresh, conn, result,
                          tele, log, rx >>
          /\ IF connect_lock = 0
             THEN /\ connect_lock' = p
                  /\ pc' = [pc EXCEPT ![p] = IF device THEN "connect" ELSE "find1"]
             ELSE /\ pc' = [pc EXCEPT ![p] = "lock"]
                  /\ UNCHANGED connect_lock
  /\ UNCHANGED << available, current, target, device, client, linkUp, operation_lock, pin_written,
                  thermostat >>

\* the connect lock is granted to a waiting task; with a connected client
\* _reset_disconnect_timer() raises and the lock is released
LockAcquiredAsWritten(p) ==
  /\ pc[p] = "lock"
  /\ connect_lock = 0
  /\ IF IsConnected
     THEN /\ reset_disconnect_timer_as_written
          /\ Finish(p, "raised")
          /\ UNCHANGED connect_lock
     ELSE /\ connect_lock' = p
          /\ pc' = [pc EXCEPT ![p] = IF device THEN "connect" ELSE "find1"]
          /\ UNCHANGED << expected_disconnect, disconnect_timer, timer_fresh, conn, result,
                          tele, log, rx >>
  /\ UNCHANGED << available, current, target, device, client, linkUp, operation_lock, pin_written,
                  thermostat, events, faults >>

\* establish_connection returns a connected client, self._client is set and
\* _reset_disconnect_timer() raises: the lock is released, no PIN is written
ConnectDoneAsWritten(p) ==
  /\ pc[p] = "connect"
  /\ client' = client + 1
  /\ linkUp' = TRUE
  /\ reset_disconnect_timer_as_written
  /\ connect_lock' = 0
  /\ Finish(p, "raised")
  /\ UNCHANGED << available, current, target, device, operation_lock, pin_written, thermostat,
                  events, faults >>

NextAsWritten ==
  \/ \E p \in Tasks : StartUpdateAsWritten(p)
  \/ \E p \in Tasks : LockAcquiredAsWritten(p)
  \/ \E p \in Tasks : Find1Done(p)
  \/ \E p \in Tasks : Find2Done(p)
  \/ \E p \in Tasks : ConnectRaises(p)
  \/ \E p \in Tasks : ConnectDoneAsWritten(p)
  \/ \E value \in BOOLEAN : SetIsOff(value)
  \/ \E temperature \in TargetTemperatureInputs : SetTargetTemperature(temperature)
  \/ \E temperature \in TargetLowInputs : SetTargetTemperatureLow(temperature)
  \/ \E temperature \in TargetHighInputs : SetTargetTemperatureHigh(temperature)
  \/ \E temperature \in OffsetInputs : SetOffsetTemperature(temperature)
  \/ \E mode \in BOOLEAN : SetManualMode(mode)
  \/ LinkLoss

SpecAsWritten == Init /\ [][NextAsWritten]_vars

\* ------------------------------------------------- the codec on its own
\* A CometBlueStates object used without the driver: target holds the fields
\* to encode and the flags its setters store, thermostat.word is the status
\* telegram to decode, tele[1] the temperature telegram the getter produced,
\* rx[1] the telegram handed to the temperatures setter, current the object
\* the telegrams are decoded into.  Every attribute of CometBlueStates is
\* public, so each field is either None or a value.  20.0, 7.5 and -64.0 C
\* for the setpoint; window detection and minutes are integers.
CodecTargetTemperatures == {None, 80, TEMPERATURE_OFF, -256}
CodecLows == {None, 68}
CodecHighs == {None, 92}
CodecOffsets == {None, -4}
CodecWindowDetections == {None, 4}
CodecWindowMinutes == {None, 10}

\* the status words decoded: the motor bits in every combination, and the
\* bits of satisfied, unknown, childlock and one bit no mask names
CodecWords == (SUBSET {8, 9, 10}) \cup { {13}, {19}, {13, 19}, {7}, {1, 7} }

\* the CometBlueStates flag setters used: manual_mode and locked
CodecSetterKeys == {"manual_mode", "childlock"}

\* the measured temperature the device puts in the first byte: none, 21.0 C
CodecMeasured == {SENTINEL, 42}

CodecInit ==
  /\ available = FALSE
  /\ current = NewStates
  /\ \/ /\ target \in
             { [NewStates EXCEPT !.target_temperature = tt, !.target_temp_l = tl,
                                 !.target_temp_h = th, !.offset_temperature = ot,
                                 !.window_open_detection = wd, !.window_open_minutes = wm] :
                 tt \in CodecTargetTemperatures, tl \in CodecLows, th \in CodecHighs,
                 ot \in CodecOffsets, wd \in CodecWindowDetections,
                 wm \in CodecWindowMinutes }
        /\ thermostat = ThermostatInit
     \/ /\ target = NewStates
        /\ thermostat \in { [ThermostatInit EXCEPT !.word = w] : w \in CodecWords }
  /\ device = FALSE
  /\ client = 0
  /\ linkUp = FALSE
  /\ connect_lock = 0
  /\ operation_lock = 0
  /\ disconnect_timer = "none"
  /\ expected_disconnect = FALSE
  /\ timer_fresh = FALSE
  /\ pin_written = {}
  /\ pc = [p \in Tasks |-> "idle"]
  /\ conn = [p \in Tasks |-> 0]
  /\ tele = [p \in Tasks |-> NoTele]
  /\ result = "none"
  /\ log = [p \in Tasks |-> << >>]
  /\ rx = [p \in Tasks |-> << >>]
  /\ events = 0
  /\ faults = 0

\* what the codec leaves alone: the driver
CodecFrame ==
  UNCHANGED << available, device, client, linkUp, connect_lock, operation_lock, pin_written,
               disconnect_timer, expected_disconnect, timer_fresh, pc, conn, log, events, faults >>

\* a flag setter of CometBlueStates (manual_mode, locked) stores a value
CodecSetFlag(key, val) ==
  /\ ~StatusHas(target.status, key)
  /\ target' = [target EXCEPT !.status = StatusSet(target.status, key, val)]
  /\ UNCHANGED << current, thermostat, tele, rx, result >>
  /\ CodecFrame

\* current.status_code = <the status telegram>
CodecReadStatus ==
  /\ current' = status_code_set(current, thermostat.word)
  /\ UNCHANGED << target, thermostat, tele, rx, result >>
  /\ CodecFrame

\* target.all_temperatures_none is evaluated: it raises KeyError, or answers
\* True ("clean") or False ("pending")
CodecPendingTest ==
  /\ result = "none"
  /\ result' = IF all_temperatures_none_raises(target) THEN "raised"
                ELSE IF all_temperatures_none(target) THEN "clean" ELSE "pending"
  /\ UNCHANGED << current, target, thermostat, tele, rx >>
  /\ CodecFrame

\* target.temperatures is evaluated: the telegram is encoded
CodecEncode ==
  /\ tele[1] = NoTele
  /\ ~temperatures_get_raises(target)
  /\ tele' = [tele EXCEPT ![1] = [kind |-> "temps", temps |-> temperatures_get(target),
                                  word |-> {}]]
  /\ UNCHANGED << current, target, thermostat, rx, result >>
  /\ CodecFrame

\* current.temperatures = <the telegram encoded, as it is (m = -128) or with
\* the measured temperature m in its first byte>
CodecDecode(m) ==
  /\ tele[1].kind = "temps"
  /\ rx[1] = << >>
  /\ rx' = [rx EXCEPT ![1] = [tele[1].temps EXCEPT ![1] = m]]
  /\ current' = temperatures_set(current, rx'[1])
  /\ UNCHANGED << target, thermostat, tele, result >>
  /\ CodecFrame

CodecNext ==
  \/ \E key \in CodecSetterKeys, val \in BOOLEAN : CodecSetFlag(key, val)
  \/ CodecReadStatus
  \/ CodecPendingTest
  \/ CodecEncode
  \/ \E m \in CodecMeasured : CodecDecode(m)

CodecSpec == CodecInit /\ [][CodecNext]_vars

\* ------------------------------------------------- the off / on round trip
\* One caller switches a thermostat off and on again over a healthy
\* transport: is_off = True, update(), is_off = False, update().

\* the manual setpoints the thermostat may hold at the start, as its byte
\* (half degrees): every one but 7.5 C
RoundTripSetpoints == {-3, 0, 16, 35, 40, 44, 57, 127}

\* current after the reads of a healthy update() from the thermostat th:
\* device info, temperatures, status, battery
AfterUpdate(cur, th) ==
  LET info == InfoField(InfoField(InfoField(InfoField(cur,
                "model", InfoValue("model")),
                "firmware", InfoValue("firmware")),
                "manufacturer", InfoValue("manufacturer")),
                "software", InfoValue("software"))
  IN [status_code_set(temperatures_set(info, th.temps), th.word)
        EXCEPT !.battery_level = th.battery]

\* The object after a healthy update() has read the setpoint from the
\* thermostat, or after the thermostat was then switched off and read again;
\* the idle timer has closed the connection since, or not yet.
RoundTripInit ==
  /\ \E b \in RoundTripSetpoints, off \in BOOLEAN :
       LET th == [ThermostatInit EXCEPT !.temps[2] = b]
           thOff == [th EXCEPT !.temps[2] = float_to_int(TEMPERATURE_OFF),
                               !.word = {0}]
       IN /\ thermostat = IF off THEN thOff ELSE th
          /\ current = IF off THEN AfterUpdate(AfterUpdate(NewStates, th), thOff)
                       ELSE AfterUpdate(NewStates, th)
  /\ \E up \in BOOLEAN :
       /\ linkUp = up
       /\ disconnect_timer = IF up THEN "armed" ELSE "fired"
       /\ expected_disconnect = ~up
  /\ available = TRUE
  /\ target = NewStates
  /\ device = TRUE
  /\ client = 1
  /\ connect_lock = 0
  /\ operation_lock = 0
  /\ timer_fresh = FALSE
  /\ pin_written = {1}
  /\ pc = [p \in Tasks |-> "idle"]
  /\ conn = [p \in Tasks |-> 0]
  /\ tele = [p \in Tasks |-> NoTele]
  /\ result = "ok"
  /\ log = [p \in Tasks |-> << >>]
  /\ rx = [p \in Tasks |-> << >>]
  /\ events = 0
  /\ faults = 0

\* the caller assigns is_off: True first, False after the first update()
RoundTripSetIsOff(value) ==
  /\ pc[1] = "idle"
  /\ events = IF value THEN 0 ELSE 2
  /\ SetIsOff(value)

\* the caller calls update() after each assignment
RoundTripUpdate ==
  /\ events \in {1, 3}
  /\ StartUpdate(1)

\* the PIN write is accepted
RoundTripPinDone == PinDone(1) /\ UNCHANGED faults

\* the temperature read delivers the thermostat's bytes
RoundTripReadTempDone == ReadTempDone(1) /\ UNCHANGED faults

RoundTripNext ==
  \/ \E value \in BOOLEAN : RoundTripSetIsOff(value)
  \/ RoundTripUpdate
  \/ ConnectDone(1)
  \/ RoundTripPinDone
  \/ WriteTempDone(1)
  \/ WriteStatusDone(1)
  \/ RoundTripReadTempDone
  \/ ReadStatusDone(1)
  \/ ReadBatteryDone(1)

RoundTripSpec == RoundTripInit /\ [][RoundTripNext]_vars

\* ------------------------------------------------------------------ claims
WriteOps == {"wT", "wS"}
ReadOps == {"rT", "rS", "rB"}

\* the temperature-family fields and their position in the telegram
TempFields ==
  << "target_temperature", "target_temp_l", "target_temp_h", "offset_temperature",
     "window_open_detection", "window_open_minutes" >>

\* the step in which task p's write w ("wT" or "wS") is confirmed
Confirmed(p, w) == pc[p] = w /\ pc'[p] # w /\ log'[p] = Append(log[p], w)

\* C1: in every update() cycle the pending temperature and status writes come
\* before the reads of temperature, status and battery: in the order of the
\* calls that returned to a task in its cycle no write follows a read, and no
\* write is in flight once a read has returned, so the values a cycle applies
\* to current were read after its confirmed write.
C1_WritesBeforeReads ==
  \A p \in Tasks :
    /\ \A i, j \in 1..Len(log[p]) :
         log[p][i] \in ReadOps /\ log[p][j] \in WriteOps => j < i
    /\ pc[p] \in WriteOps => \A i \in 1..Len(log[p]) : log[p][i] \notin ReadOps

\* a cycle wrote 7.5 C and manual mode, then read the temperature telegram
\* that carries the value written
C1_Witness ==
  \E p \in Tasks :
    /\ "wT" \in Range(log[p]) /\ "wS" \in Range(log[p])
    /\ pc[p] = "rS" /\ rx[p] # << >> /\ rx[p][2] = 15
    /\ current.is_off

\* C2: update() makes a pending target field absent only in the step in
\* which the write that was pending for it (the temperature telegram for the
\* six temperature fields, the status telegram for the status flags) is
\* confirmed, and a step in which update() raises, in the write or before it,
\* leaves every target field as it was, so that the next cycle writes it
\* again.  (A step of update() is one that moves a task; what a setter stores
\* meanwhile is the subject of C4.)
C2_ClearedOnlyOnConfirmedWrite ==
  [][ /\ \A i \in 1..Len(TempFields) :
           pc' # pc /\ target[TempFields[i]] # None /\ target'[TempFields[i]] = None
             => \E p \in Tasks : Confirmed(p, "wT")
      /\ pc' # pc /\ Len(target.status) > 0 /\ Len(target'.status) = 0
           => \E p \in Tasks : Confirmed(p, "wS")
      /\ \A p \in Tasks :
           pc[p] # "idle" /\ pc'[p] = "idle" /\ result' = "raised" => target' = target
    ]_vars

\* a task whose update() raised is writing the still pending setpoint again
C2_Witness ==
  \E p \in Tasks :
    /\ result = "raised"
    /\ pc[p] = "wT"
    /\ tele[p].temps[2] = float_to_int(target.target_temperature)
    /\ target.target_temperature # None

\* the awaits in which a cycle has a transport operation outstanding
InFlightPcs == {"find1", "find2", "connect", "pin"} \cup GattPcs

\* C3: update() runs under a per-device lock: at most one cycle is between
\* its first and its last transport operation at any time.
C3_OneCycleInFlight == Cardinality({ p \in Tasks : pc[p] \in InFlightPcs }) <= 1

\* C4: a setpoint stored while update() is suspended inside a write is not
\* cleared by that cycle unless it was part of the telegram: in the step that
\* confirms a write, every pending field equals what the telegram carries.
C4_ClearsOnlyWhatWasWritten ==
  [][ \A p \in Tasks :
        /\ Confirmed(p, "wT") => temperatures_get(target) = tele[p].temps
        /\ Confirmed(p, "wS") => status_code_get(target) = tele[p].word
    ]_vars

\* C5: after any update() call that ends with an exception, available is false.
C5_RaisedLeavesUnavailable ==
  [][ \A p \in Tasks :
        pc[p] # "idle" /\ pc'[p] = "idle" /\ result' = "raised" => ~available'
    ]_vars

\* C6: when the transport rejects the PIN write, _ensure_connected raises:
\* a task whose PIN was rejected is in no characteristic read or write.
C6_RejectedPinEndsCycle ==
  \A p \in Tasks : "pin_rejected" \in Range(log[p]) => pc[p] \notin GattPcs

\* C7: should_update() is true iff the device is unavailable or any target
\* field (temperature, low, high, offset, window fields, status) is pending.
C7_ShouldUpdateIffPending ==
  should_update(available, target)
    <=> (~available \/ TempFamily(target) # {None} \/ Len(target.status) > 0)

\* the temperature fields and is_off of a CometBlueStates
TempView(s) ==
  << s.is_off, s.current_temp, s.target_temperature, s.target_temp_l, s.target_temp_h,
     s.offset_temperature, s.window_open_detection, s.window_open_minutes >>

\* C8: a temperature telegram read in update() with -128 in any position is
\* discarded whole: the temperature fields and is_off of current stay, nothing
\* is raised, and the cycle goes on to the status read.
C8_SentinelTelegramDiscarded ==
  [][ \A p \in Tasks :
        pc[p] = "rT" /\ rx'[p] # << >> /\ SENTINEL \in Range(rx'[p])
          => /\ TempView(current') = TempView(current)
             /\ pc'[p] = "rS"
             /\ result' = result
    ]_vars

\* a cycle that read -128 in the high setpoint is in its status read, and
\* current still has no temperatures
C8_Witness ==
  \E p \in Tasks :
    /\ pc[p] = "rS" /\ rx[p] # << >> /\ rx[p][4] = SENTINEL
    /\ current.target_temp_h = None

\* C9: is_off = true queues manual_mode = true and target_temperature = 7.5;
\* is_off = false queues current.target_temperature when it is known and
\* current's high setpoint otherwise.
C9_IsOffSetter ==
  [][ /\ SetIsOff(TRUE)
           => /\ target'.target_temperature = TEMPERATURE_OFF
              /\ manual_mode_get(target')
      /\ SetIsOff(FALSE)
           => target'.target_temperature =
                IF current.target_temperature # None
                THEN current.target_temperature ELSE current.target_temp_h
    ]_vars

\* off was requested and then withdrawn after a read: manual mode is queued
\* and the setpoint read from the device, 20.0 C, is queued again
C9_Witness ==
  /\ manual_mode_get(target)
  /\ current.target_temperature = 80
  /\ current.target_temp_h = 88
  /\ target.target_temperature = 80

\* C10: target_temperature set while current.is_off stores the value in
\* current and leaves target as it was, so that no temperature write follows
\* from the call; otherwise the value goes to target and current stays.
C10_TargetTemperatureSetter ==
  [][ \A t \in TargetTemperatureInputs :
        SetTargetTemperature(t)
          => IF current.is_off
             THEN /\ current' = [current EXCEPT !.target_temperature = t]
                  /\ target' = target
                  /\ all_temperatures_none(target)
                       => NextAwait("info", current', target').pc # "wT"
             ELSE /\ target' = [target EXCEPT !.target_temperature = t]
                  /\ current' = current
    ]_vars

\* the device is off and 21.0 C was set: it is in current, nothing is queued
C10_Witness ==
  /\ current.is_off
  /\ current.target_temperature = 84
  /\ target.target_temperature = None
  /\ events = 3

\* the awaits of update() that are characteristic reads
ReadPcs == Range(InfoOrder) \cup ReadOps

\* the step in which a characteristic read of task p returns successfully
ReadReturned(p) ==
  /\ pc[p] \in ReadPcs
  /\ \/ log'[p] = Append(log[p], pc[p])
     \/ pc[p] = "rB" /\ pc'[p] = "idle" /\ result' = "ok"

\* C11 as stated: every change of current is the result of a characteristic
\* read that returned successfully inside update(); setters change only target.
C11_CurrentOnlyByReads ==
  [][ current' # current => \E p \in Tasks : ReadReturned(p) ]_vars

\* C11 as amended: current changes only in a step in which a characteristic
\* read of update() returns successfully, or in a call of the
\* target_temperature setter made while current.is_off, which changes
\* current.target_temperature and nothing else; every other setter leaves
\* current as it is.
C11_CurrentByReadsOrOffRedirect ==
  [][ current' # current
        => \/ \E p \in Tasks : ReadReturned(p)
           \/ /\ pc' = pc
              /\ current.is_off
              /\ target' = target
              /\ \E t \in TargetTemperatureInputs :
                   current' = [current EXCEPT !.target_temperature = t]
    ]_vars

\* current holds what the reads delivered (battery, device info) and, the
\* device being off, the 21.0 C of a setter call; an offset is queued on target
C11_Witness ==
  /\ current.battery_level = 80
  /\ current.model = "Comet Blue"
  /\ current.is_off
  /\ current.target_temperature = 84
  /\ target.offset_temperature = 4

\* the flag key of a _status dict is True
Flag(st, key) == \E i \in 1..Len(st) : st[i].k = key /\ st[i].b

\* the first name of the precedence list whose flag is true, else "unknown"
FirstByPrecedence(st) ==
  LET active == SelectSeq(STATUS_ACTIONS, LAMBDA k : Flag(st, k))
  IN  IF Len(active) > 0 THEN active[1] ELSE "unknown"

\* C12: the status classification returns the first name of the precedence
\* list [adapting, not_ready, installing, motor_moving, unknown, satisfied]
\* whose flag is true, and "unknown" when none is, for a mapping decoded from
\* a status word (current) and for one filled by setters (target).
C12_StatusByPrecedence ==
  /\ status_get(current) = FirstByPrecedence(current.status)
  /\ status_get(target) = FirstByPrecedence(target.status)

\* the object has decoded the status telegram
StatusDecoded == Len(current.status) > 0

\* C13 as stated: the word 0x700 decodes installing, motor_moving and
\* not_ready true and adapting false.
C13_Decode0x700AdaptingFalse ==
  StatusDecoded /\ thermostat.word = {8, 9, 10}
    => /\ Flag(current.status, "installing")
       /\ Flag(current.status, "motor_moving")
       /\ Flag(current.status, "not_ready")
       /\ ~Flag(current.status, "adapting")

\* C13 as amended: decode_status sets a flag iff every bit of its mask is in
\* the word, so a multi-bit mask needs all its bits (0x500 is motor_moving and
\* adapting, not installing); the word 0x700 contains the masks of
\* installing, motor_moving, not_ready and also of adapting (0x400), and all
\* four decode true.
C13_FullMaskContainment ==
  StatusDecoded
    => /\ \A i \in 1..Len(STATUS_KEYS) :
            Flag(current.status, STATUS_KEYS[i])
              <=> \A bit \in STATUS_BITMASKS[STATUS_KEYS[i]] : bit \in thermostat.word
       /\ thermostat.word = {8, 10} => ~Flag(current.status, "installing")
       /\ thermostat.word = {8, 9, 10}
            => /\ Flag(current.status, "installing")
               /\ Flag(current.status, "motor_moving")
               /\ Flag(current.status, "not_ready")
               /\ Flag(current.status, "adapting")

\* the word 0x700 has been decoded
C13_Witness ==
  /\ StatusDecoded
  /\ thermostat.word = {8, 9, 10}
  /\ Flag(current.status, "installing")

\* the six temperature-family fields of a CometBlueStates
Fields(s) ==
  << s.target_temperature, s.target_temp_l, s.target_temp_h, s.offset_temperature,
     s.window_open_detection, s.window_open_minutes >>

\* a field value the telegram can carry: a multiple of 0.5 C in -64.0 .. 63.5
\* (quarter degrees), or a signed byte for the window fields
ValidFloat(v) == v # None /\ v % 2 = 0 /\ IsSignedByte(v \div 2)
ValidInt(v) == v # None /\ IsSignedByte(v)

ValidFields(s) ==
  /\ ValidFloat(s.target_temperature) /\ ValidFloat(s.target_temp_l)
  /\ ValidFloat(s.target_temp_h) /\ ValidFloat(s.offset_temperature)
  /\ ValidInt(s.window_open_detection) /\ ValidInt(s.window_open_minutes)

\* C14 as stated: decoding the telegram produced by encoding the valid
\* fields f yields f again.
C14_RoundTrip ==
  rx[1] # << >> /\ rx[1] = tele[1].temps /\ ValidFields(target)
    => Fields(current) = Fields(target)

\* C14 as amended: the telegram encoded from valid fields f has -128 in its
\* first byte (the measured temperature) and is discarded whole by the
\* decoder as it is; with a measured temperature in the first byte, and no
\* field of f equal to -64.0 (whose byte is -128), decoding it yields the
\* five fields low, high, offset, window detection and window minutes of f
\* again, and the setpoint of f unless that is 7.5, which decodes to
\* is_off = true and leaves target_temperature as it was.
C14_RoundTripBehindMeasuredByte ==
  /\ rx[1] # << >> /\ rx[1] = tele[1].temps /\ ValidFields(target)
       => Fields(current) = Fields(NewStates) /\ ~current.is_off
  /\ rx[1] # << >> /\ rx[1][1] # SENTINEL /\ ValidFields(target)
       /\ (\A i \in 1..6 : Fields(target)[i] # -256)
       => /\ \A i \in 2..6 : Fields(current)[i] = Fields(target)[i]
          /\ IF target.target_temperature = TEMPERATURE_OFF
             THEN current.is_off /\ current.target_temperature = None
             ELSE ~current.is_off /\ current.target_temperature = target.target_temperature

\* the fields 20.0 / 17.0 / 23.0 / -1.0 / 4 / 10 were encoded and decoded
\* behind a measured 21.0 C
C14_Witness ==
  /\ rx[1] # << >> /\ rx[1][1] = 42
  /\ target.target_temperature = 80
  /\ Fields(current) = << 80, 68, 92, -4, 4, 10 >>

\* the integer entry key of a _status dict: its bits, or {} when absent
StatusInt(st, key) ==
  IF StatusHas(st, key) THEN (CHOOSE e \in Range(st) : e.k = key).n ELSE {}

\* C15: no status information is dropped on read-modify-write: a decoded
\* status carries state_as_dword (the word read) and unused_bits (its bits
\* under no named mask), and the status telegram update() writes after the
\* caller changed manual_mode keeps every other bit of the word last read
\* from the device.
C15_StatusWriteKeepsOtherBits ==
  /\ Len(current.status) > 0
       => /\ StatusHas(current.status, "state_as_dword")
          /\ StatusHas(current.status, "unused_bits")
          /\ StatusInt(current.status, "unused_bits")
               = StatusInt(current.status, "state_as_dword")
                   \ UNION { STATUS_BITMASKS[STATUS_KEYS[i]] : i \in 1..Len(STATUS_KEYS) }
  /\ \A p \in Tasks :
       pc[p] = "wS" /\ Len(current.status) > 0
         => StatusInt(current.status, "state_as_dword") \ STATUS_BITMASKS.manual_mode
              \subseteq tele[p].word

\* the step in which an awaited operation on the link (connect, PIN write,
\* characteristic read or write) returns successfully to task p
OperationReturned(p) ==
  \/ pc[p] = "connect" /\ pc'[p] = "pin"
  \/ pc[p] = "pin" /\ log'[p] = Append(log[p], "pin")
  \/ \E w \in WriteOps : Confirmed(p, w)
  \/ ReadReturned(p)

\* C16: the idle-disconnect countdown is started again after every successful
\* operation (the connect and each characteristic read or write of a cycle),
\* so that it counts from the last operation; and when it expires, the client
\* is disconnected.
C16_TimerRearmedByEveryOperation ==
  [][ /\ \A p \in Tasks : OperationReturned(p) => timer_fresh'
      /\ disconnect_timer = "armed" /\ disconnect_timer' = "fired" => ~linkUp'
    ]_vars

C18_IsOffIffSetpointOff ==
  /\ current.is_off <=> current.target_temperature = TEMPERATURE_OFF
  /\ target.is_off <=> target.target_temperature = TEMPERATURE_OFF

\* the step in which task p's temperature read returns a telegram that the
\* temperatures setter accepts
TelegramAccepted(p) ==
  pc[p] = "rT" /\ rx'[p] # << >> /\ SENTINEL \notin Range(rx'[p])

\* C18 as amended: is_off of current is derived from the setpoint of the
\* temperature telegram last accepted: it is false at first, changes only
\* when update() accepts a temperature telegram, and is then true iff the
\* setpoint of the telegram is 7.5, in which case current.target_temperature
\* keeps the value it had instead of becoming 7.5; is_off of target is never
\* set, whatever target.target_temperature is.
C18_IsOffFromLastTelegram ==
  /\ ~current.is_off /\ ~target.is_off
  /\ [][ /\ \A p \in Tasks :
              TelegramAccepted(p)
                => /\ current'.is_off <=> 2 * rx'[p][2] = TEMPERATURE_OFF
                   /\ current'.is_off
                        => current'.target_temperature = current.target_temperature
         /\ current'.is_off # current.is_off => \E p \in Tasks : TelegramAccepted(p)
         /\ ~target'.is_off
       ]_vars

\* the device was switched off after its setpoint 20.0 C had been read:
\* current is off and still holds 20.0 C
C18_Witness ==
  /\ current.is_off
  /\ current.target_temperature = 80
  /\ thermostat.temps[2] = 15
  /\ target.target_temperature = None

\* C19: the pending-write test is total: for every assignment of the six
\* temperature-family fields of target the temperature test does not fail
\* and answers "pending" iff at least one field is not None, and the status
\* test is true iff the status mapping is non-empty.
C19_PendingTestTotal ==
  /\ result # "raised"
  /\ result = "pending" => \E i \in 1..6 : Fields(target)[i] # None
  /\ result = "clean" => \A i \in 1..6 : Fields(target)[i] = None
  /\ ~status_code_is_none(target) <=> target.status # << >>

\* C20: the two pending families are cleared independently: the step that
\* confirms the temperature write leaves the six temperature fields of target
\* absent and its status mapping as it was, pending for its own write; and
\* when that status write raises, the status mapping stays pending and the
\* temperature fields stay as they are.
C20_FamiliesClearedIndependently ==
  [][ \A p \in Tasks :
        /\ Confirmed(p, "wT")
             => /\ \A i \in 1..6 : Fields(target')[i] = None
                /\ target'.status = target.status
                /\ target.status # << >> => pc'[p] = "wS"
        /\ pc[p] = "wS" /\ pc'[p] = "idle"
             => /\ result' = "raised"
                /\ target'.status = target.status
                /\ Fields(target') = Fields(target)
    ]_vars

\* off was requested; the temperature write reached the device and the
\* status write raised: no temperature is pending, manual mode still is
C20_Witness ==
  /\ result = "raised"
  /\ \A p \in Tasks : pc[p] = "idle"
  /\ thermostat.temps[2] = 15 /\ thermostat.word = {7}
  /\ \A i \in 1..6 : Fields(target)[i] = None
  /\ manual_mode_get(target)

\* the four device-info fields of current
DeviceInfos(s) == << s.model, s.firmware_rev, s.manufacturer, s.software_rev >>

\* the step in which task p begins the device-info fetch
FetchBegins(p) == pc[p] \notin Range(InfoOrder) /\ pc'[p] = "model"

\* C21 as stated: update() begins the device-info fetch only while all four
\* fields are still absent, and a field that holds a value is never changed.
C21_FetchOnlyWhileAllAbsent ==
  [][ /\ \A p \in Tasks :
           FetchBegins(p) => \A i \in 1..4 : DeviceInfos(current)[i] = NoneS
      /\ \A i \in 1..4 :
           DeviceInfos(current)[i] # NoneS
             => DeviceInfos(current')[i] = DeviceInfos(current)[i]
    ]_vars

\* C21 as amended: update() begins the device-info fetch iff at least one of
\* the four fields is absent when _ensure_connected() returns, and then reads
\* all four again, also those a partially failed fetch has filled; once all
\* four hold a value and no fetch is in flight, no cycle reads them, and a
\* field that holds a value is only ever assigned what the device serves
\* for it.
C21_FetchWhileAnyAbsent ==
  [][ /\ \A p \in Tasks :
           /\ FetchBegins(p) => \E i \in 1..4 : DeviceInfos(current)[i] = NoneS
           /\ pc[p] \in {"idle", "lock", "pin"} /\ pc'[p] \in GattPcs
                => (pc'[p] = "model" <=> \E i \in 1..4 : DeviceInfos(current)[i] = NoneS)
      /\ (\A i \in 1..4 : DeviceInfos(current)[i] # NoneS)
           /\ (\A p \in Tasks : pc[p] \notin Range(InfoOrder))
           => /\ \A p \in Tasks : pc'[p] \notin Range(InfoOrder)
              /\ DeviceInfos(current') = DeviceInfos(current)
      /\ \A i \in 1..4 :
           DeviceInfos(current')[i] # DeviceInfos(current)[i]
             => DeviceInfos(current')[i] = InfoValue(InfoOrder[i])
    ]_vars

\* after a fetch that failed half way, a cycle is reading the model again
\* although current already holds it
C21_Witness ==
  /\ result = "raised"
  /\ current.model # NoneS
  /\ current.software_rev = NoneS
  /\ \E p \in Tasks : pc[p] = "model"

\* C22: when every transport call succeeds (no fault has happened), a call
\* of update() that ends returns without raising and available is true
\* afterwards, with nothing of target left pending from before the call.
C22_HealthyCycleSucceeds ==
  [][ \A p \in Tasks :
        pc[p] # "idle" /\ pc'[p] = "idle" /\ faults' = 0
          => /\ result' = "ok"
             /\ available'
    ]_vars

\* C23: authentication precedes use: a characteristic read or write of
\* update() is pending only on a connection whose PIN write has returned,
\* also when a second update() starts while the first is still connecting
\* or authenticating.
C23_PinBeforeUse ==
  \A p \in Tasks : pc[p] \in GattPcs => conn[p] \in pin_written

\* C24: off / on round trip.  From a state where current.target_temperature
\* = T was read from the device, T not 7.5: after is_off = True and a
\* successful update() the device's manual setpoint is 7.5 and current is
\* off; after is_off = False and a second successful update() the device's
\* manual setpoint equals current.target_temperature and current is not off;
\* and current.target_temperature never changes on the way, so it is T at
\* the end and stays T rather than 7.5 while the device is off.
C24_OffOnRoundTrip ==
  /\ [](events = 2 /\ pc[1] = "idle"
          => /\ result = "ok"
             /\ current.is_off
             /\ 2 * thermostat.temps[2] = TEMPERATURE_OFF
             /\ current.target_temperature # TEMPERATURE_OFF)
  /\ [](events = 4 /\ pc[1] = "idle"
          => /\ result = "ok"
             /\ available
             /\ ~current.is_off
             /\ 2 * thermostat.temps[2] = current.target_temperature)
  /\ [][current'.target_temperature = current.target_temperature]_vars

\* the round trip has run to its end from a thermostat at 17.5 C, over a
\* connection that had to be opened again
C24_Witness ==
  /\ events = 4
  /\ pc[1] = "idle"
  /\ result = "ok"
  /\ client = 2
  /\ ~current.is_off
  /\ current.target_temperature = 70
  /\ thermostat.temps[2] = 35

====
